---- MODULE Spec2Model ----
(***************************************************************************)
(* Model of the HapticGlove module of walking-teleoperation:               *)
(*   HapticGloveModule            (periodic scheduler, two hands)          *)
(*   FingersRetargeting           (per-hand retargeting engine)            *)
(* Numbers are exact rationals <<n, d>>; a non-finite double (the result   *)
(* of a division by zero, and everything computed from it) is NaN.         *)
(***************************************************************************)
EXTENDS Integers, Sequences, FiniteSets, TLC

(***************************** bounds **************************************)
\* number of actuated axes of a hand in the engine specification
AxisCount == 2
\* rows a sample log may hold before the calibration operations are disabled
MaxSamples == 2
\* value the wall clock may reach
MaxTime == 4
\* calls of trainCouplingMatrix on one engine
MaxTrain == 1

(***************************** numbers *************************************)
Abs(n) == IF n < 0 THEN -n ELSE n

RECURSIVE GCD(_, _)
GCD(a, b) == IF b = 0 THEN a ELSE GCD(b, a % b)

NaN == <<0, 0>>

Rat(n, d) ==
    IF d = 0 THEN NaN
    ELSE LET g == GCD(Abs(n), Abs(d))
             s == IF d < 0 THEN -1 ELSE 1
         IN  <<(s * n) \div g, (s * d) \div g>>

R(n) == <<n, 1>>

IsNaN(x) == x[2] = 0

RAdd(x, y) == IF IsNaN(x) \/ IsNaN(y) THEN NaN
              ELSE Rat(x[1] * y[2] + y[1] * x[2], x[2] * y[2])
RNeg(x) == IF IsNaN(x) THEN NaN ELSE <<-x[1], x[2]>>
RSub(x, y) == RAdd(x, RNeg(y))
RMul(x, y) == IF IsNaN(x) \/ IsNaN(y) THEN NaN
              ELSE Rat(x[1] * y[1], x[2] * y[2])
RDiv(x, y) == IF IsNaN(x) \/ IsNaN(y) THEN NaN
              ELSE Rat(x[1] * y[2], x[2] * y[1])
\* x < y on doubles: false whenever an operand is NaN
RLess(x, y) == ~IsNaN(x) /\ ~IsNaN(y) /\ x[1] * y[2] < y[1] * x[2]

RECURSIVE RSum(_, _)
RSum(f, n) == IF n = 0 THEN R(0) ELSE RAdd(RSum(f, n - 1), f[n])

(***************************** vectors, matrices ***************************)
\* a yarp::sig::Vector is a sequence of numbers
Zeros(n) == [i \in 1..n |-> R(0)]

\* an Eigen dynamic matrix: its shape and its rows
Mat(r, c, f(_, _)) == [rows |-> r, cols |-> c,
                       v |-> [i \in 1..r |-> [j \in 1..c |-> f(i, j)]]]
EmptyMat == [rows |-> 0, cols |-> 0, v |-> <<>>]

Transpose(m) == LET f(i, j) == m.v[j][i] IN Mat(m.cols, m.rows, f)

\* a * b, for a.cols = b.rows
MatMul(a, b) ==
    LET f(i, j) == RSum([k \in 1..a.cols |-> RMul(a.v[i][k], b.v[k][j])], a.cols)
    IN  Mat(a.rows, b.cols, f)

Minor(m, r, c) ==
    LET f(i, j) == m.v[IF i < r THEN i ELSE i + 1][IF j < c THEN j ELSE j + 1]
    IN  Mat(m.rows - 1, m.cols - 1, f)

RECURSIVE Det(_)
Det(m) ==
    IF m.rows = 0 THEN R(1)
    ELSE RSum([j \in 1..m.cols |->
                 RMul(IF j % 2 = 1 THEN m.v[1][j] ELSE RNeg(m.v[1][j]),
                      Det(Minor(m, 1, j)))], m.cols)

\* Eigen's inverse() of a square matrix: every entry is non-finite when the
\* matrix is singular (a zero pivot) or holds a non-finite entry
Inverse(m) ==
    LET d == Det(m)
        bad == IsNaN(d) \/ d = R(0)
        f(i, j) == IF bad THEN NaN
                   ELSE RDiv(IF (i + j) % 2 = 0 THEN Det(Minor(m, j, i))
                             ELSE RNeg(Det(Minor(m, j, i))), d)
    IN  Mat(m.rows, m.cols, f)

\* mutant: the ones sit on the other diagonal
Identity_Mirrored(n) ==
    LET f(i, j) == IF i + j = n + 1 THEN R(1) ELSE R(0) IN Mat(n, n, f)

Identity(n) == LET f(i, j) == IF i = j THEN R(1) ELSE R(0) IN Mat(n, n, f)

Col(m, j) == LET f(i, k) == m.v[i][j] IN Mat(m.rows, 1, f)

(***************************** robot control helper ************************)
\* The per-hand actuator/sensor collaborator (HapticGlove::RobotControlHelper)
\* as the engine uses it: sizes, cached measures, limits.
JointCount(n) == n + 1

UnitVec(n, k) == [i \in 1..n |-> IF i = k THEN R(1) ELSE R(0)]

\* ground-truth coupling of the simulated hand: joint i follows axis min(i, n)
TrueCoupling(n) ==
    LET f(i, j) == IF j = (IF i < n THEN i ELSE n) THEN R(1) ELSE R(0)
    IN  Mat(JointCount(n), n, f)

AsColumn(v) == LET f(i, j) == v[i] IN Mat(Len(v), 1, f)
AsRow(v) == LET f(i, j) == v[j] IN Mat(1, Len(v), f)
ColumnToVec(m) == [i \in 1..m.rows |-> m.v[i][1]]

\* what one successful sensor read can deliver for a hand with n axes
Readings(n) ==
    {[axis |-> UnitVec(n, k),
      joints |-> ColumnToVec(MatMul(TrueCoupling(n), AsColumn(UnitVec(n, k))))]
       : k \in 1..n}

\* a sensor read fails, or succeeds with one of the readings
FeedbackOutcomes(n) ==
    {[ok |-> FALSE, reading |-> [axis |-> <<>>, joints |-> <<>>]]}
    \cup {[ok |-> TRUE, reading |-> r] : r \in Readings(n)}

\* getLimits(): position limits [min, max] of every axis
LimitMin == 0
LimitMax == 2
getLimits(n) == [i \in 1..n |-> <<R(LimitMin), R(LimitMax)>>]

\* getVelocityLimits(): column 1 holds the largest speed of every axis
VelocityLimit == 1
getVelocityLimits(n) == [i \in 1..n |-> <<R(-VelocityLimit), R(VelocityLimit)>>]

\* getFeedback(): refreshes the cached measures when the read succeeds
getFeedback(e, ok, reading) ==
    IF ok THEN [e EXCEPT !.encoders = reading.axis, !.analog = reading.joints]
    ELSE e

(***************************** iCub::ctrl::Integrator **********************)
saturate(v, lim) ==
    [i \in 1..Len(v) |->
        IF RLess(v[i], lim[i][1]) THEN lim[i][1]
        ELSE IF RLess(lim[i][2], v[i]) THEN lim[i][2]
        ELSE v[i]]

Integrator(Ts, y0, lim) ==
    [set |-> TRUE, Ts |-> Ts, lim |-> lim, y |-> saturate(y0, lim),
     x_old |-> Zeros(Len(y0))]

NoIntegrator == [set |-> FALSE, Ts |-> R(0), lim |-> <<>>, y |-> <<>>, x_old |-> <<>>]

\* integrate(x), for Len(x) = Len(y): the Tustin formula, then the saturation
integrate(g, x) ==
    [g EXCEPT !.y = saturate([i \in 1..Len(g.y) |->
                                 RAdd(g.y[i], RMul(RAdd(x[i], g.x_old[i]),
                                                   RDiv(g.Ts, R(2))))], g.lim),
              !.x_old = x]

(***************************** Utils ***************************************)
\* push_back_row(m, row): appends row to m; fails, leaving m alone, when m is
\* not empty and its column count differs from the row's length
push_back_row_ok(m, row) == m.rows * m.cols = 0 \/ m.cols = Len(row)
push_back_row(m, row) ==
    IF push_back_row_ok(m, row)
    THEN [rows |-> m.rows + 1, cols |-> Len(row), v |-> Append(m.v, row)]
    ELSE m

(***************************** FingersRetargeting **************************)
\* what an engine operation hands back: the engine afterwards, the value it
\* returns, the calls it made on its collaborators, and whether it aborted
\* the process
Res(e, ret, calls) == [e |-> e, ret |-> ret, calls |-> calls, abort |-> FALSE]
Aborted(e, calls) == [e |-> e, ret |-> FALSE, calls |-> calls, abort |-> TRUE]
\* ok: what the called collaborator answered
Call(op, arg, ok) == [op |-> op, arg |-> arg, ok |-> ok]

\* a FingersRetargeting object after construction
NewFingers ==
    [ready |-> FALSE, dofs |-> 0, joints |-> 0, encoders |-> <<>>, analog |-> <<>>,
     m_fingersScaling |-> <<>>, m_motorJointsCoupled |-> FALSE,
     m_doCalibration |-> FALSE, m_A |-> EmptyMat, m_controlCoeff |-> EmptyMat,
     m_desiredMotorValue |-> <<>>, m_desiredJointValue |-> <<>>,
     m_fingerIntegrator |-> NoIntegrator, m_motorsData |-> EmptyMat,
     m_jointsData |-> EmptyMat, motorVelocityReference |-> <<>>]

SamplingTime == 2

updateFeedback(e, ok, reading) ==
    Res(getFeedback(e, ok, reading), ok, <<Call("getFeedback", <<>>, ok)>>)

getFingerAxisMeasuredValues(e) == e.encoders
getFingerJointsMeasuredValues(e) == e.analog

\* the coupling matrix read from the flattened, row-major configuration entry
CouplingFromVector(A_vector, noAnalogSensor, fingersNoOfAxis) ==
    LET f(i, j) == A_vector[(i - 1) * fingersNoOfAxis + (j - 1) + 1]
    IN  Mat(noAnalogSensor, fingersNoOfAxis, f)

\* mutant: the integrator is given limits far wider than the hand's
IntegratorLimits_Wide(n) == [i \in 1..n |-> <<R(-100), R(100)>>]

\* the limits matrix configure fills with getLimits and hands to the integrator
IntegratorLimits(n) == getLimits(n)

configure(e0, cfg) ==
    LET n  == cfg.dofs
        e1 == [e0 EXCEPT !.dofs = n, !.joints = JointCount(n),
                         !.encoders = Zeros(n), !.analog = Zeros(JointCount(n))]
        e2 == [e1 EXCEPT !.m_fingersScaling = Zeros(n)]
        e3 == [e2 EXCEPT !.m_fingersScaling = cfg.fingersScaling,
                         !.m_motorJointsCoupled = cfg.motorsJointsCoupled,
                         !.m_doCalibration = cfg.doCalibration]
        e4 == IF e3.m_motorJointsCoupled
              THEN IF ~e3.m_doCalibration
                   THEN [e3 EXCEPT !.m_A = CouplingFromVector(cfg.CouplingMatrix,
                                                              e3.joints, n)]
                   ELSE e3
              ELSE [e3 EXCEPT !.m_A = Identity(n)]
        e5 == getFeedback([e4 EXCEPT !.m_desiredMotorValue = Zeros(n),
                                     !.m_desiredJointValue = Zeros(e4.joints)],
                          cfg.feedbackOk, cfg.reading)
        buff == getFingerAxisMeasuredValues(e5)
        e6 == [e5 EXCEPT !.m_fingerIntegrator =
                             Integrator(R(SamplingTime), buff, IntegratorLimits(n)),
                         !.m_jointsData = [rows |-> 0, cols |-> e5.joints, v |-> <<>>],
                         !.m_motorsData = [rows |-> 0, cols |-> n, v |-> <<>>],
                         !.ready = TRUE]
    IN  IF "controlHelper" \in cfg.missing THEN Res(e0, FALSE, <<>>)
        ELSE IF "samplingTime" \in cfg.missing THEN Res(e1, FALSE, <<>>)
        ELSE IF "fingersScaling" \in cfg.missing THEN Res(e2, FALSE, <<>>)
        ELSE IF /\ cfg.motorsJointsCoupled /\ ~cfg.doCalibration
                /\ "CouplingMatrix" \in cfg.missing THEN Res(e3, FALSE, <<>>)
        ELSE IF "limits" \in cfg.missing
             THEN Res(e5, FALSE, <<Call("getFeedback", <<>>, cfg.feedbackOk)>>)
        ELSE Res(e6, TRUE, <<Call("getFeedback", <<>>, cfg.feedbackOk)>>)

\* mutant: the scaling is dropped
ScaledReference_Unscaled(fingersReference, m_fingersScaling) == fingersReference

ScaledReference(fingersReference, m_fingersScaling) ==
    [i \in 1..Len(fingersReference) |->
        RMul(fingersReference[i], m_fingersScaling[i])]

\* mutant: the size check is gone, the common prefix is written
setFingersAxisReference_NoSizeCheck(e, fingersReference) ==
    Res([e EXCEPT !.m_desiredMotorValue =
            [i \in 1..Len(@) |->
                IF i <= Len(fingersReference)
                THEN RMul(fingersReference[i], e.m_fingersScaling[i]) ELSE @[i]]],
        TRUE, <<>>)

setFingersAxisReference(e, fingersReference) ==
    IF Len(fingersReference) # Len(e.m_desiredMotorValue)
    THEN Res(e, FALSE, <<>>)
    ELSE Res([e EXCEPT !.m_desiredMotorValue =
                  ScaledReference(fingersReference, e.m_fingersScaling)],
             TRUE, <<>>)

\* m_controlCoeff * fingersJointsRef is well formed, and its first noMotors
\* entries exist
ProductDefined(e) ==
    e.m_controlCoeff.cols = e.joints /\ e.m_controlCoeff.rows >= e.dofs

\* an indeterminate vector: what reading past the end of the product yields
Indeterminate(n) == [i \in 1..n |-> NaN]

MotorReferenceFromJoints(e, fingersReference) ==
    LET fingersMotorRef == MatMul(e.m_controlCoeff, AsColumn(fingersReference))
    IN  [i \in 1..e.dofs |-> fingersMotorRef.v[i][1]]

\* ub: how the build resolves an ill-formed product ("abort": Eigen's
\* assertion stops the process; "garbage": the product is read out of bounds)
setFingersJointReference(e, fingersReference, ub) ==
    IF Len(fingersReference) # Len(e.m_desiredJointValue)
    THEN Res(e, FALSE, <<>>)
    ELSE IF ProductDefined(e)
    THEN Res(setFingersAxisReference(e,
                 MotorReferenceFromJoints(e, fingersReference)).e, TRUE, <<>>)
    ELSE IF ub = "abort" THEN Aborted(e, <<>>)
    ELSE Res(setFingersAxisReference(e, Indeterminate(e.dofs)).e, TRUE, <<>>)

\* RetargetingController::move(): the stored motor command goes to the actuator
move(e) == Res(e, TRUE, <<Call("move", e.m_desiredMotorValue, TRUE)>>)

\* M_PI_4 + M_PI_4 * sin(t) for t = 0, 1, ..., in thousandths
SinTable == <<785, 1446, 1500, 896, 191, 32, 566, 1301>>
SinReference(t) == Rat(SinTable[t + 1], 1000)

\* -1.0 * vmax + (rand() / RAND_MAX) * 2.0 * vmax, for a draw u in [0, 1]
RandomVelocity(u, vmax) ==
    RAdd(RMul(R(-1), vmax), RMul(RMul(u, R(2)), vmax))

MeasuredAxisRow(e) == [i \in 1..e.dofs |-> getFingerAxisMeasuredValues(e)[i]]
MeasuredJointsRow(e) == [i \in 1..e.joints |-> getFingerJointsMeasuredValues(e)[i]]

\* the two early returns of the calibration operations
\* mutant: the doCalibration check is gone
SkipCalibration_CoupledOnly(e) == ~e.m_motorJointsCoupled

SkipCalibration(e) == ~e.m_motorJointsCoupled \/ ~e.m_doCalibration

\* the part the two calibration operations share: the guards, then one row
\* on each sample log.  "go" tells whether the operation continues.
\* mutant: the joint row is not logged
LogMeasuredRows_NoJointRow(e) ==
    LET e1 == [e EXCEPT !.m_motorsData = push_back_row(@, MeasuredAxisRow(e))]
        c1 == <<Call("push_back_row", MeasuredAxisRow(e), TRUE)>>
        c2 == Append(c1, Call("push_back_row", MeasuredJointsRow(e), TRUE))
    IN  IF SkipCalibration(e) THEN [go |-> FALSE, r |-> Res(e, TRUE, <<>>)]
        ELSE IF ~e.m_fingerIntegrator.set THEN [go |-> FALSE, r |-> Res(e, FALSE, <<>>)]
        ELSE [go |-> TRUE, r |-> Res(e1, TRUE, c2)]

LogMeasuredRows(e) ==
    LET e1 == [e EXCEPT !.m_motorsData = push_back_row(@, MeasuredAxisRow(e))]
        e2 == [e1 EXCEPT !.m_jointsData = push_back_row(@, MeasuredJointsRow(e))]
        c1 == <<Call("push_back_row", MeasuredAxisRow(e), TRUE)>>
        c2 == Append(c1, Call("push_back_row", MeasuredJointsRow(e), TRUE))
    IN  IF SkipCalibration(e) THEN [go |-> FALSE, r |-> Res(e, TRUE, <<>>)]
        ELSE IF ~e.m_fingerIntegrator.set THEN [go |-> FALSE, r |-> Res(e, FALSE, <<>>)]
        ELSE IF ~push_back_row_ok(e.m_motorsData, MeasuredAxisRow(e))
             THEN [go |-> FALSE, r |-> Res(e, FALSE, <<>>)]
        ELSE IF ~push_back_row_ok(e1.m_jointsData, MeasuredJointsRow(e))
             THEN [go |-> FALSE, r |-> Res(e1, FALSE, c1)]
        ELSE [go |-> TRUE, r |-> Res(e2, TRUE, c2)]

\* draws: one rand() draw in [0, 1] per axis
LogDataToCalibrateRobotMotorsJointsCouplingRandom(e, generateRandomVelocity, draws) ==
    LET s  == LogMeasuredRows(e)
        e2 == s.r.e
        vl == getVelocityLimits(e.dofs)
        e3 == IF generateRandomVelocity
              THEN [e2 EXCEPT !.motorVelocityReference =
                        @ \o [i \in 1..e.dofs |-> RandomVelocity(draws[i], vl[i][2])]]
              ELSE e2
        e4 == [e3 EXCEPT !.m_fingerIntegrator =
                             integrate(@, e3.motorVelocityReference)]
        motorReference == e4.m_fingerIntegrator.y
        e5 == setFingersAxisReference(e4, motorReference).e
    IN  IF ~s.go THEN s.r
        \* yarp's vector sum asserts equal lengths: the process stops
        ELSE IF Len(e3.motorVelocityReference) # Len(e3.m_fingerIntegrator.y)
             THEN Aborted(e3, s.r.calls)
        ELSE Res(e5, TRUE,
                 s.r.calls \o <<Call("setFingersAxisReference", motorReference, TRUE)>>
                           \o move(e5).calls)

\* axisNumber in 0 .. noAxis-1
LogDataToCalibrateRobotMotorsJointsCouplingSin(e, time, axisNumber) ==
    LET s  == LogMeasuredRows(e)
        e2 == s.r.e
        motorReference == [Zeros(e.dofs) EXCEPT ![axisNumber + 1] = SinReference(time)]
        e3 == setFingersAxisReference(e2, motorReference).e
    IN  IF ~s.go THEN s.r
        ELSE Res(e3, TRUE,
                 s.r.calls \o <<Call("setFingersAxisReference", motorReference, TRUE)>>
                           \o move(e3).calls)

\* rows i..n of the coupling matrix, one per joint, appended to m_A
RECURSIVE AppendThetaRows(_, _, _, _, _)
AppendThetaRows(A, coeff, jointsData, i, n) ==
    IF i > n THEN A
    ELSE LET tetha_i == MatMul(coeff, Col(jointsData, i))
         IN  AppendThetaRows(push_back_row(A, ColumnToVec(tetha_i)),
                             coeff, jointsData, i + 1, n)

PseudoInverse(m) == MatMul(Inverse(MatMul(Transpose(m), m)), Transpose(m))

TrainedA(e) ==
    AppendThetaRows(e.m_A, PseudoInverse(e.m_motorsData), e.m_jointsData, 1, e.joints)

\* the function ends without a return statement: the caller sees either value
trainCouplingMatrix(e, returned) ==
    Res([e EXCEPT !.m_A = TrainedA(e), !.m_controlCoeff = PseudoInverse(TrainedA(e))],
        returned, <<>>)

(***************************** inputs **************************************)
Hands == {"left", "right"}

Scalings(n) == {[i \in 1..n |-> R(1)], [i \in 1..n |-> R(i + 1)]}

MissingEntries == {"controlHelper", "samplingTime", "fingersScaling",
                   "CouplingMatrix", "limits"}

FlatCoupling(n) ==
    [k \in 1..(JointCount(n) * n) |->
        TrueCoupling(n).v[((k - 1) \div n) + 1][((k - 1) % n) + 1]]

\* the configurations of one hand with n axes.  Complete ones: every mode with
\* unit and with non-unit scaling, and every mode with a first sensor read
\* that fails; ones with a single entry or collaborator missing; and
\* uncoupled ones that give no CouplingMatrix.
FirstReading(n) == CHOOSE r \in Readings(n) : r.axis = UnitVec(n, 1)

EngineConfigs(n) ==
    {[dofs |-> n, missing |-> {}, fingersScaling |-> sc,
      motorsJointsCoupled |-> c, doCalibration |-> d,
      CouplingMatrix |-> FlatCoupling(n), feedbackOk |-> TRUE,
      reading |-> FirstReading(n)]
       : sc \in Scalings(n), c \in BOOLEAN, d \in BOOLEAN}
    \cup
    {[dofs |-> n, missing |-> {}, fingersScaling |-> [i \in 1..n |-> R(1)],
      motorsJointsCoupled |-> c, doCalibration |-> d,
      CouplingMatrix |-> FlatCoupling(n), feedbackOk |-> FALSE,
      reading |-> FirstReading(n)]
       : c \in BOOLEAN, d \in BOOLEAN}
    \cup
    {[dofs |-> n, missing |-> {m}, fingersScaling |-> [i \in 1..n |-> R(1)],
      motorsJointsCoupled |-> TRUE, doCalibration |-> FALSE,
      CouplingMatrix |-> FlatCoupling(n), feedbackOk |-> TRUE,
      reading |-> FirstReading(n)]
       : m \in MissingEntries}
    \cup
    {[dofs |-> n, missing |-> {"CouplingMatrix"},
      fingersScaling |-> [i \in 1..n |-> R(1)],
      motorsJointsCoupled |-> FALSE, doCalibration |-> d,
      CouplingMatrix |-> <<>>, feedbackOk |-> TRUE,
      reading |-> FirstReading(n)]
       : d \in BOOLEAN}

\* references a caller may pass: the right length and both wrong neighbours
ReferenceInputs(n) ==
    {[i \in 1..n |-> R(i)], [i \in 1..(n - 1) |-> R(3)], [i \in 1..(n + 1) |-> R(3)]}

RandomDraws(n) == {[i \in 1..n |-> R(i % 2)]}

\* the argument of the random calibration operation, and the draws of rand()
\* it consumes when the argument is true
RandomInputs(n) ==
    {[generateRandomVelocity |-> FALSE, draws |-> <<>>]}
    \cup {[generateRandomVelocity |-> TRUE, draws |-> d] : d \in RandomDraws(n)}

SinTimes == {1}

UBOutcomes == {"abort", "garbage"}

\* a GloveControlHelper after construction
NewGlove == [configured |-> FALSE, m_buzzDof |-> 0, m_desiredBuzzValues |-> <<>>]

(***************************** state ***************************************)
VARIABLES
    fingers,                    \* m_leftHandFingers, m_rightHandFingers
    m_state,                    \* HapticGloveFSM, "Unset" before configure
    m_timeStarting, m_timeNow,
    m_icubFingerAxisReference,  \* per hand
    m_icubFingerAxisFeedback,   \* per hand
    m_icubFingerJointsFeedback, \* per hand
    clock,                      \* yarp::os::Time::now()
    lastOp,                     \* the operation that ran last
    lastArg,                    \* the argument it was called with
    ret,                        \* what it returned
    calls,                      \* the collaborator calls it made, in order
    alive,                      \* FALSE once the process was aborted
    nTrain,                     \* calls of trainCouplingMatrix so far
    glove                       \* a GloveControlHelper

moduleVars == <<m_state, m_timeStarting, m_timeNow, m_icubFingerAxisReference,
                m_icubFingerAxisFeedback, m_icubFingerJointsFeedback, clock>>
vars == <<fingers, m_state, m_timeStarting, m_timeNow, m_icubFingerAxisReference,
          m_icubFingerAxisFeedback, m_icubFingerJointsFeedback, clock,
          lastOp, lastArg, ret, calls, alive, nTrain, glove>>

OnHand(h, cs) ==
    [i \in 1..Len(cs) |->
        [hand |-> h, op |-> cs[i].op, arg |-> cs[i].arg, ok |-> cs[i].ok]]

Init ==
    /\ fingers = [h \in Hands |-> NewFingers]
    /\ m_state = "Unset"
    /\ m_timeStarting = 0
    /\ m_timeNow = 0
    /\ m_icubFingerAxisReference = [h \in Hands |-> <<>>]
    /\ m_icubFingerAxisFeedback = [h \in Hands |-> <<>>]
    /\ m_icubFingerJointsFeedback = [h \in Hands |-> <<>>]
    /\ clock = 1
    /\ lastOp = "none"
    /\ lastArg = <<>>
    /\ ret = FALSE
    /\ calls = <<>>
    /\ alive = TRUE
    /\ nTrain = 0
    /\ glove = NewGlove

(***************************** engine operations ***************************)
\* one FingersRetargeting object (the left hand's) driven through its
\* public operations
Engine == "left"

Ready == alive /\ fingers[Engine].ready

\* the outcome r of operation name on the engine becomes the new state
Finish(name, arg, outcome) ==
    \E r \in {outcome} :
    /\ fingers' = [fingers EXCEPT ![Engine] = r.e]
    /\ lastOp' = name
    /\ lastArg' = arg
    /\ ret' = r.ret
    /\ calls' = OnHand(Engine, r.calls)
    /\ alive' = ~r.abort
    /\ UNCHANGED <<moduleVars, glove>>

EConfigure ==
    /\ lastOp = "none"
    /\ \E cfg \in EngineConfigs(AxisCount) :
          Finish("configure", <<cfg>>, configure(fingers[Engine], cfg))
    /\ UNCHANGED nTrain

EUpdateFeedback ==
    /\ Ready
    /\ \E fb \in FeedbackOutcomes(fingers[Engine].dofs) :
          Finish("updateFeedback", <<>>, updateFeedback(fingers[Engine], fb.ok, fb.reading))
    /\ UNCHANGED nTrain

ESetFingersAxisReference ==
    /\ Ready
    /\ \E v \in ReferenceInputs(fingers[Engine].dofs) :
          Finish("setFingersAxisReference", v, setFingersAxisReference(fingers[Engine], v))
    /\ UNCHANGED nTrain

ESetFingersJointReference ==
    /\ Ready
    /\ \E v \in ReferenceInputs(fingers[Engine].joints),
          ub \in (IF ProductDefined(fingers[Engine]) THEN {"none"} ELSE UBOutcomes) :
          Finish("setFingersJointReference", v,
                 setFingersJointReference(fingers[Engine], v, ub))
    /\ UNCHANGED nTrain

EMove ==
    /\ Ready
    /\ Finish("move", <<>>, move(fingers[Engine]))
    /\ UNCHANGED nTrain

ELogRandom ==
    /\ Ready
    /\ fingers[Engine].m_motorsData.rows < MaxSamples
    /\ \E in \in RandomInputs(fingers[Engine].dofs) :
          Finish("LogRandom", <<in.generateRandomVelocity>>,
                 LogDataToCalibrateRobotMotorsJointsCouplingRandom(
                     fingers[Engine], in.generateRandomVelocity, in.draws))
    /\ UNCHANGED nTrain

ELogSin ==
    /\ Ready
    /\ fingers[Engine].m_motorsData.rows < MaxSamples
    /\ \E t \in SinTimes, a \in 0..(fingers[Engine].dofs - 1) :
          Finish("LogSin", <<t, a>>,
                 LogDataToCalibrateRobotMotorsJointsCouplingSin(fingers[Engine], t, a))
    /\ UNCHANGED nTrain

ETrainCouplingMatrix ==
    /\ Ready
    /\ nTrain < MaxTrain
    /\ \E returned \in BOOLEAN :
          Finish("trainCouplingMatrix", <<>>,
                 trainCouplingMatrix(fingers[Engine], returned))
    /\ nTrain' = nTrain + 1

EngineNext ==
    \/ EConfigure
    \/ EUpdateFeedback
    \/ ESetFingersAxisReference
    \/ ESetFingersJointReference
    \/ EMove
    \/ ELogRandom
    \/ ELogSin
    \/ ETrainCouplingMatrix

SpecEngine == Init /\ [][EngineNext]_vars

(***************************** HapticGloveModule ***************************)
\* the axis counts a hand may report
HandDofs == {AxisCount, AxisCount + 1}

\* the module leaves motorsJointsCoupled and doCalibration at their defaults
ModuleHandConfigs ==
    UNION {{c \in EngineConfigs(n) :
               \/ c.missing # {}
               \/ ~c.motorsJointsCoupled /\ ~c.doCalibration} : n \in HandDofs}

\* enableLogger of the configuration, and what the logger's create() calls
\* answer when openLogger runs
LoggerOptions ==
    {[enableLogger |-> FALSE, created |-> TRUE],
     [enableLogger |-> TRUE, created |-> TRUE],
     [enableLogger |-> TRUE, created |-> FALSE]}

\* the resource finder handed to configure.  The right hand has at least as
\* many axes as the left one: the loop of updateModule indexes the right
\* reference with the left hand's axis numbers.
ResourceFinders ==
    {[isNull |-> TRUE, hasName |-> FALSE, left |-> l, right |-> l,
      enableLogger |-> FALSE, created |-> TRUE]
        : l \in {c \in ModuleHandConfigs : c.dofs = AxisCount /\ c.missing = {}
                                           /\ c.feedbackOk}}
    \cup
    {[isNull |-> FALSE, hasName |-> b, left |-> p[1], right |-> p[2],
      enableLogger |-> lg.enableLogger, created |-> lg.created]
        : b \in BOOLEAN, lg \in LoggerOptions,
          p \in {q \in ModuleHandConfigs \X ModuleHandConfigs : q[1].dofs <= q[2].dofs}}

\* openLogger(): the answers of the logger's create() calls are dropped and
\* the function ends in its only return statement
openLogger(created) ==
    [ret |-> TRUE,
     calls |-> <<[hand |-> "logger", op |-> "create", arg |-> <<>>, ok |-> created]>>]

\* the calls configure makes for the logger
LoggerCalls(rf) ==
    IF rf.enableLogger
    THEN openLogger(rf.created).calls
         \o <<[hand |-> "module", op |-> "openLogger", arg |-> <<>>,
               ok |-> openLogger(rf.created).ret]>>
    ELSE <<>>

\* resource finders whose hands differ in their number of axes, either way
MismatchedResourceFinders ==
    {[isNull |-> FALSE, hasName |-> TRUE, left |-> p[1], right |-> p[2],
      enableLogger |-> FALSE, created |-> TRUE]
        : p \in {q \in ModuleHandConfigs \X ModuleHandConfigs :
                    /\ q[1].dofs # q[2].dofs
                    /\ q[1].missing = {} /\ q[2].missing = {}}}

\* HapticGloveModule::configure, handed one of the resource finders rfs
ConfigureFrom(rfs) ==
    /\ lastOp = "none"
    /\ \E rf \in rfs :
       \E l \in {configure(fingers["left"], rf.left)} :
       \E r \in {configure(fingers["right"], rf.right)} :
          /\ lastOp' = "configure"
          /\ lastArg' = <<rf>>
          /\ UNCHANGED <<clock, alive, nTrain, glove>>
          /\ IF rf.isNull \/ ~rf.hasName
             THEN /\ ret' = FALSE
                  /\ calls' = <<>>
                  /\ UNCHANGED <<fingers, m_state, m_timeStarting, m_timeNow,
                                 m_icubFingerAxisReference, m_icubFingerAxisFeedback,
                                 m_icubFingerJointsFeedback>>
             ELSE IF ~l.ret
             THEN /\ ret' = FALSE
                  /\ calls' = OnHand("left", l.calls)
                  /\ fingers' = [fingers EXCEPT !["left"] = l.e]
                  /\ UNCHANGED <<m_state, m_timeStarting, m_timeNow,
                                 m_icubFingerAxisReference, m_icubFingerAxisFeedback,
                                 m_icubFingerJointsFeedback>>
             ELSE IF ~r.ret
             THEN /\ ret' = FALSE
                  /\ calls' = OnHand("left", l.calls) \o OnHand("right", r.calls)
                  /\ fingers' = [left |-> l.e, right |-> r.e]
                  /\ UNCHANGED <<m_state, m_timeStarting, m_timeNow,
                                 m_icubFingerAxisReference, m_icubFingerAxisFeedback,
                                 m_icubFingerJointsFeedback>>
             ELSE /\ calls' = OnHand("left", l.calls) \o OnHand("right", r.calls)
                               \o LoggerCalls(rf)
                  /\ fingers' = [left |-> l.e, right |-> r.e]
                  /\ m_timeStarting' = 0
                  /\ m_timeNow' = 0
                  /\ m_icubFingerAxisReference' =
                         [left |-> Zeros(l.e.dofs), right |-> Zeros(r.e.dofs)]
                  /\ m_icubFingerAxisFeedback' =
                         [left |-> Zeros(l.e.dofs), right |-> Zeros(r.e.dofs)]
                  /\ m_icubFingerJointsFeedback' =
                         [left |-> Zeros(l.e.joints), right |-> Zeros(r.e.joints)]
                  /\ IF rf.enableLogger /\ ~openLogger(rf.created).ret
                     THEN ret' = FALSE /\ UNCHANGED m_state
                     ELSE ret' = TRUE /\ m_state' = "Configured"

Configure == ConfigureFrom(ResourceFinders)

ConfigureMismatched == ConfigureFrom(MismatchedResourceFinders)

\* the hands whose feedback getFeedbacks pulls
FeedbackHands == <<"left">>

\* getFeedbacks(): fb[h] is what the sensor read of hand h delivers
RECURSIVE PullFeedbacks(_, _, _)
PullFeedbacks(m, fb, i) ==
    IF i > Len(FeedbackHands) THEN m
    ELSE LET h == FeedbackHands[i]
             u == updateFeedback(m.fingers[h], fb[h].ok, fb[h].reading)
         IN  PullFeedbacks(
                 [fingers |-> [m.fingers EXCEPT ![h] = u.e],
                  axisFeedback |-> [m.axisFeedback EXCEPT
                                       ![h] = getFingerAxisMeasuredValues(u.e)],
                  jointsFeedback |-> [m.jointsFeedback EXCEPT
                                       ![h] = getFingerJointsMeasuredValues(u.e)],
                  calls |-> m.calls
                            \o OnHand(h, <<Call("updateFeedback", <<>>, u.ret)>>)
                            \o OnHand(h, u.calls)],
                 fb, i + 1)

\* mutant: a failed read is propagated
getFeedbacksReturn_Propagated(allOk) == allOk

getFeedbacksReturn(allOk) == TRUE

getFeedbacks(fs, axisFb, jointsFb, fb) ==
    LET m == PullFeedbacks([fingers |-> fs, axisFeedback |-> axisFb,
                            jointsFeedback |-> jointsFb, calls |-> <<>>], fb, 1)
    IN  [fingers |-> m.fingers, axisFeedback |-> m.axisFeedback,
         jointsFeedback |-> m.jointsFeedback, calls |-> m.calls,
         ret |-> getFeedbacksReturn(\A i \in 1..Len(m.calls) : m.calls[i].ok)]

\* the entry a cycle's call list keeps for getFeedbacks and its answer
FeedbacksEntry(g) ==
    g.calls \o <<[hand |-> "both", op |-> "getFeedbacks", arg |-> <<>>, ok |-> g.ret]>>

\* mutant: the preparation state falls back instead of advancing
NextFSMState_Restart(state) ==
    IF state = "Configured" THEN "InPreparation"
    ELSE IF state = "InPreparation" THEN "Configured"
    ELSE state

\* mutant: the Running work is done from the first cycle on
IsRunning_FromConfigured(state) == state \in {"Configured", "Running"}

\* the test that guards the Running work of a cycle
IsRunning(state) == state = "Running"

\* the state the cycle leaves
NextFSMState(state) ==
    IF state = "Running" THEN "Running"
    ELSE IF state = "Configured" THEN "InPreparation"
    ELSE IF state = "InPreparation" THEN "Running"
    ELSE state

\* the start time the cycle leaves
NextTimeStarting(state, timeStarting, now) ==
    IF state = "InPreparation" THEN now ELSE timeStarting

\* the loop over the left hand's axes, writing both references
LeftReference(old, noLeftFingersAxis, value) ==
    [i \in 1..Len(old) |-> IF i <= noLeftFingersAxis THEN value ELSE old[i]]
RightReference(old, noLeftFingersAxis, left) ==
    [i \in 1..Len(old) |-> IF i <= noLeftFingersAxis THEN left[i] ELSE old[i]]

\* the loop writes m_icubRightFingerAxisReference(i) past the vector's end:
\* the left hand has more axes than the right one
RightReferenceOverrun(fs) == fs["left"].dofs > fs["right"].dofs

\* one hand's reference is set, then the hand is moved
SetAndMove(e, h, reference) ==
    LET s == setFingersAxisReference(e, reference)
    IN  [e |-> s.e,
         calls |-> OnHand(h, <<Call("setFingersAxisReference", reference, s.ret)>>)
                   \o OnHand(h, move(s.e).calls)]

UpdateModule ==
    /\ alive
    /\ lastOp # "none" /\ m_state # "Unset"
    /\ clock < MaxTime
    /\ clock' = clock + 1
    /\ UNCHANGED <<nTrain, glove>>
    /\ lastOp' = "updateModule"
    /\ lastArg' = <<>>
    /\ \E fl \in FeedbackOutcomes(fingers["left"].dofs) :
       \E fb \in {[h \in Hands |-> fl]} :
       \E g \in {getFeedbacks(fingers, m_icubFingerAxisFeedback,
                              m_icubFingerJointsFeedback, fb)} :
          /\ m_icubFingerAxisFeedback' = g.axisFeedback
          /\ m_icubFingerJointsFeedback' = g.jointsFeedback
          /\ IF ~g.ret
             THEN /\ ret' = FALSE
                  /\ fingers' = g.fingers
                  /\ calls' = FeedbacksEntry(g)
                  /\ alive' = alive
                  /\ UNCHANGED <<m_state, m_timeStarting, m_timeNow,
                                 m_icubFingerAxisReference>>
             ELSE IF IsRunning(m_state) /\ RightReferenceOverrun(g.fingers)
             THEN \E ub \in UBOutcomes :
                  LET noLeft == g.fingers["left"].dofs
                      value == SinReference(clock - m_timeStarting)
                      leftRef == LeftReference(m_icubFingerAxisReference["left"],
                                               noLeft, value)
                      rightRef == RightReference(m_icubFingerAxisReference["right"],
                                                 noLeft, leftRef)
                      l == SetAndMove(g.fingers["left"], "left", leftRef)
                      r == SetAndMove(g.fingers["right"], "right", rightRef)
                  IN  /\ m_timeNow' = clock
                      /\ UNCHANGED <<m_state, m_timeStarting>>
                      /\ m_icubFingerAxisReference' =
                             [left |-> IF ub = "abort"
                                       THEN LeftReference(
                                                m_icubFingerAxisReference["left"],
                                                g.fingers["right"].dofs + 1, value)
                                       ELSE leftRef,
                              right |-> rightRef]
                      /\ IF ub = "abort"
                         THEN /\ alive' = FALSE
                              /\ ret' = FALSE
                              /\ fingers' = g.fingers
                              /\ calls' = FeedbacksEntry(g)
                         ELSE /\ alive' = alive
                              /\ ret' = TRUE
                              /\ fingers' = [left |-> l.e, right |-> r.e]
                              /\ calls' = FeedbacksEntry(g) \o l.calls \o r.calls
             ELSE IF IsRunning(m_state)
             THEN LET noLeft == g.fingers["left"].dofs
                      value == SinReference(clock - m_timeStarting)
                      leftRef == LeftReference(m_icubFingerAxisReference["left"],
                                               noLeft, value)
                      rightRef == RightReference(m_icubFingerAxisReference["right"],
                                                 noLeft, leftRef)
                      l == SetAndMove(g.fingers["left"], "left", leftRef)
                      r == SetAndMove(g.fingers["right"], "right", rightRef)
                  IN  /\ m_timeNow' = clock
                      /\ UNCHANGED <<m_state, m_timeStarting>>
                      /\ alive' = alive
                      /\ ret' = TRUE
                      /\ m_icubFingerAxisReference' =
                             [left |-> leftRef, right |-> rightRef]
                      /\ fingers' = [left |-> l.e, right |-> r.e]
                      /\ calls' = FeedbacksEntry(g) \o l.calls \o r.calls
             ELSE /\ m_state' = NextFSMState(m_state)
                  /\ m_timeStarting' = NextTimeStarting(m_state, m_timeStarting, clock)
                  /\ ret' = TRUE
                  /\ fingers' = g.fingers
                  /\ calls' = FeedbacksEntry(g)
                  /\ alive' = alive
                  /\ UNCHANGED <<m_timeNow, m_icubFingerAxisReference>>

Next ==
    \/ Configure
    \/ UpdateModule

Spec == Init /\ [][Next]_vars

\* the module with two hands of different axis counts
NextMismatched ==
    \/ ConfigureMismatched
    \/ UpdateModule

SpecMismatched == Init /\ [][NextMismatched]_vars

(***************************** GloveControlHelper **************************)
\* m_buzzDof, the number of buzz motors of the glove
BuzzDof == 5

\* std::round of a positive double: to the nearest integer, halves upwards
RoundPositive(x) == (2 * x[1] + x[2]) \div (2 * x[2])

\* the intensity stored for one requested value
BuzzValue(x) == IF RLess(R(0), x) THEN RoundPositive(x) ELSE 0

\* configure(): the sizes and the stored intensities are set before the name
\* lists are read; listsOk tells whether both lists are found
GloveConfigure(g, listsOk) ==
    [g |-> [g EXCEPT !.configured = TRUE, !.m_buzzDof = BuzzDof,
                     !.m_desiredBuzzValues = [i \in 1..BuzzDof |-> 0]],
     ret |-> listsOk, calls |-> <<>>]

\* sendOk: what the glove answers to SendHaptics
setBuzzMotorsReference(g, desiredValue, sendOk) ==
    IF Len(desiredValue) # g.m_buzzDof
    THEN [g |-> g, ret |-> FALSE, calls |-> <<>>]
    ELSE LET values == [i \in 1..g.m_buzzDof |-> BuzzValue(desiredValue[i])]
         IN  [g |-> [g EXCEPT !.m_desiredBuzzValues = values],
              ret |-> sendOk,
              calls |-> <<[hand |-> "glove", op |-> "SendHaptics",
                           arg |-> values, ok |-> sendOk]>>]

\* turnOffBuzzMotors(): the off command is sent, the stored values stay
turnOffBuzzMotors(g) ==
    [g |-> g, ret |-> TRUE,
     calls |-> <<[hand |-> "glove", op |-> "SendHaptics",
                  arg |-> [i \in 1..g.m_buzzDof |-> 0], ok |-> TRUE]>>]

\* requested intensities: negative, between two integers, above the full scale
BuzzRequests == {R(-1), Rat(5, 2), R(150)}

\* the vectors passed to setBuzzMotorsReference: the right length and both
\* wrong neighbours
BuzzInputs ==
    [1..BuzzDof -> BuzzRequests]
    \cup {[i \in 1..(BuzzDof - 1) |-> R(50)], [i \in 1..(BuzzDof + 1) |-> R(50)]}

\* the outcome r of operation name on the glove becomes the new state
GloveFinish(name, arg, r) ==
    /\ glove' = r.g
    /\ lastOp' = name
    /\ lastArg' = arg
    /\ ret' = r.ret
    /\ calls' = r.calls
    /\ UNCHANGED <<fingers, moduleVars, alive, nTrain>>

GConfigure ==
    /\ lastOp = "none"
    /\ \E listsOk \in BOOLEAN :
          GloveFinish("configure", <<>>, GloveConfigure(glove, listsOk))

GSetBuzzMotorsReference ==
    /\ glove.configured
    /\ \E v \in BuzzInputs, sendOk \in BOOLEAN :
          GloveFinish("setBuzzMotorsReference", v,
                      setBuzzMotorsReference(glove, v, sendOk))

GTurnOffBuzzMotors ==
    /\ glove.configured
    /\ GloveFinish("turnOffBuzzMotors", <<>>, turnOffBuzzMotors(glove))

GloveNext ==
    \/ GConfigure
    \/ GSetBuzzMotorsReference
    \/ GTurnOffBuzzMotors

SpecGlove == Init /\ [][GloveNext]_vars

(***************************** claims: module ******************************)
HasCall(cs, h, op) == \E i \in 1..Len(cs) : cs[i].hand = h /\ cs[i].op = op
FeedbackFailedIn(cs) == \E i \in 1..Len(cs) : cs[i].op = "updateFeedback" /\ ~cs[i].ok

\* a step of updateModule: the only operation that advances the clock
CycleStep == clock' # clock

\* C1: a successful configure leaves Configured; a cycle in Configured leads
\* to InPreparation, a cycle in InPreparation records the start time and
\* leads to Running, a cycle in Running stays in Running; no cycle leads back
\* to Configured or InPreparation from a later state, and the start time is
\* written in the InPreparation cycle only.
C1_SchedulerProgression ==
    [][/\ (lastOp' = "configure" /\ ret') => m_state' = "Configured"
       /\ CycleStep =>
            /\ m_state = "Configured" =>
                  m_state' = "InPreparation" /\ m_timeStarting' = m_timeStarting
            /\ m_state = "InPreparation" =>
                  m_state' = "Running" /\ m_timeStarting' = clock
            /\ m_state = "Running" =>
                  m_state' = "Running" /\ m_timeStarting' = m_timeStarting
            /\ m_state' \in {"InPreparation", "Running"}
            /\ m_state' = "InPreparation" => m_state = "Configured"]_vars

\* a Running cycle has run after the start time was recorded
C1_Witness ==
    /\ lastOp = "updateModule" /\ m_state = "Running"
    /\ m_timeStarting > 0 /\ m_timeNow > m_timeStarting

\* C2: after every cycle that ran in Running, updateFeedback was called on
\* both hands and both hands' measured axis and joint vectors are the
\* helper's current measures.
C2_BothHandsPulled ==
    (lastOp = "updateModule" /\ HasCall(calls, "left", "move")) =>
        \A h \in Hands :
            /\ HasCall(calls, h, "updateFeedback")
            /\ m_icubFingerAxisFeedback[h] = fingers[h].encoders
            /\ m_icubFingerJointsFeedback[h] = fingers[h].analog

\* C10: a cycle whose feedback read failed still has getFeedbacks answer
\* true, makes its state transition or does its Running work on the cached
\* measures, and returns true.
C10_FeedbackFailureTolerated ==
    [][(CycleStep /\ FeedbackFailedIn(calls')) =>
          /\ alive' /\ ret'
          /\ \E i \in 1..Len(calls') : calls'[i].op = "getFeedbacks" /\ calls'[i].ok
          /\ m_icubFingerAxisFeedback'["left"] = fingers["left"].encoders
          /\ m_icubFingerJointsFeedback'["left"] = fingers["left"].analog
          /\ m_state = "Configured" => m_state' = "InPreparation"
          /\ m_state = "InPreparation" =>
                m_state' = "Running" /\ m_timeStarting' = clock
          /\ m_state = "Running" =>
                /\ m_state' = "Running"
                /\ \A h \in Hands :
                      /\ HasCall(calls', h, "setFingersAxisReference")
                      /\ HasCall(calls', h, "move")]_vars

\* a Running cycle completed although its feedback read failed, with measures
\* cached from an earlier successful read
C10_Witness ==
    /\ lastOp = "updateModule" /\ FeedbackFailedIn(calls) /\ ret
    /\ HasCall(calls, "left", "move")
    /\ m_icubFingerAxisFeedback["left"] # Zeros(fingers["left"].dofs)

\* the ways a configuration is in error: it is empty, has no name, a hand's
\* engine lacks its control helper, sampling time, scaling, limits or (where
\* it is read) coupling matrix, or the enabled logger could not be created
Unavailable(c) ==
    \E m \in c.missing :
        m = "CouplingMatrix" => (c.motorsJointsCoupled /\ ~c.doCalibration)

ConfigurationFails(rf) ==
    \/ rf.isNull
    \/ ~rf.hasName
    \/ Unavailable(rf.left)
    \/ Unavailable(rf.right)
    \/ rf.enableLogger /\ ~rf.created

\* C11: a configure whose configuration is in error returns false and does
\* not set the state Configured; configure returns true exactly when it set
\* Configured; and Configured is reached only by a configure whose
\* configuration is in no error.
C11_ConfigurationErrorsFatal ==
    [][/\ lastOp' = "configure" =>
             /\ ConfigurationFails(lastArg'[1]) => (~ret' /\ m_state' # "Configured")
             /\ ret' <=> m_state' = "Configured"
       /\ (m_state # "Configured" /\ m_state' = "Configured") =>
             lastOp' = "configure" /\ ~ConfigurationFails(lastArg'[1])]_vars

(***************************** claims: engine ******************************)
Eng == fingers[Engine]
IsLogOp(name) == name \in {"LogRandom", "LogSin"}
ShapeIs(m, r, c) == m.rows = r /\ m.cols = c

\* C3: a setter called with a vector of the wrong length returns false and
\* leaves the stored motor command as it was.
C3_WrongSizeRejected ==
    [][(\/ lastOp' = "setFingersAxisReference" /\ Len(lastArg') # Eng.dofs
        \/ lastOp' = "setFingersJointReference" /\ Len(lastArg') # Eng.joints) =>
          /\ ret' = FALSE
          /\ alive'
          /\ fingers'[Engine].m_desiredMotorValue = Eng.m_desiredMotorValue]_vars

\* a wrong-sized call was refused while a command other than the initial one
\* was stored
C3_Witness ==
    /\ lastOp \in {"setFingersAxisReference", "setFingersJointReference"}
    /\ Len(lastArg) \notin {Eng.dofs, Eng.joints}
    /\ ~ret
    /\ Eng.m_desiredMotorValue # Zeros(Eng.dofs)

\* C4: after setFingersAxisReference(v) with v of length axisCount the call
\* has returned true and the stored command is v(i) * scaling(i) on every
\* axis, whatever was stored before; the same call again changes nothing.
C4_AxisReferenceScaled ==
    (lastOp = "setFingersAxisReference" /\ Len(lastArg) = Eng.dofs) =>
        /\ ret
        /\ Len(Eng.m_desiredMotorValue) = Eng.dofs
        /\ \A i \in 1..Eng.dofs :
              Eng.m_desiredMotorValue[i] = RMul(lastArg[i], Eng.m_fingersScaling[i])
        /\ setFingersAxisReference(Eng, lastArg).e = Eng

\* a reference was stored under a scaling that is not all ones
C4_Witness ==
    /\ lastOp = "setFingersAxisReference" /\ Len(lastArg) = Eng.dofs /\ ret
    /\ Eng.m_desiredMotorValue # lastArg

\* C5: after setFingersJointReference(r) with r of length jointCount the call
\* has returned true, the control coefficient is axes x joints and the stored
\* command is scaling(i) * (controlCoeff * r)(i) on every axis.
C5_JointReferenceProjected ==
    (lastOp = "setFingersJointReference" /\ Len(lastArg) = Eng.joints) =>
        /\ alive /\ ret
        /\ ShapeIs(Eng.m_controlCoeff, Eng.dofs, Eng.joints)
        /\ \A i \in 1..Eng.dofs :
              Eng.m_desiredMotorValue[i] =
                  RMul(Eng.m_fingersScaling[i],
                       RSum([k \in 1..Eng.joints |->
                                RMul(Eng.m_controlCoeff.v[i][k], lastArg[k])],
                            Eng.joints))

\* C6: a successful configure in coupled non-calibration mode leaves A
\* (joints x axes) and the control coefficient (axes x joints) loaded;
\* trainCouplingMatrix in calibration mode leaves both set; and a coupling
\* matrix or control coefficient that is set is never changed by a step.
C6_CouplingLifecycle ==
    [][/\ (/\ lastOp' = "configure" /\ ret'
           /\ fingers'[Engine].m_motorJointsCoupled
           /\ ~fingers'[Engine].m_doCalibration) =>
              /\ ShapeIs(fingers'[Engine].m_A, fingers'[Engine].joints,
                         fingers'[Engine].dofs)
              /\ ShapeIs(fingers'[Engine].m_controlCoeff, fingers'[Engine].dofs,
                         fingers'[Engine].joints)
       /\ (/\ lastOp' = "trainCouplingMatrix"
           /\ Eng.m_motorJointsCoupled /\ Eng.m_doCalibration) =>
              /\ fingers'[Engine].m_A.rows > 0
              /\ fingers'[Engine].m_controlCoeff.rows > 0
       /\ Eng.m_A.rows > 0 => fingers'[Engine].m_A = Eng.m_A
       /\ Eng.m_controlCoeff.rows > 0 =>
              fingers'[Engine].m_controlCoeff = Eng.m_controlCoeff]_vars

\* the motor sample log cannot determine the coupling: too few rows, or
\* motorsData^T * motorsData singular
Degenerate(e) ==
    \/ e.m_motorsData.rows < e.dofs
    \/ Det(MatMul(Transpose(e.m_motorsData), e.m_motorsData)) = R(0)

\* C7: trainCouplingMatrix on a degenerate motor sample log reports failure
\* and installs neither a coupling matrix nor a control coefficient.
C7_DegenerateDataRejected ==
    [][(lastOp' = "trainCouplingMatrix" /\ Degenerate(Eng)) =>
          /\ ret' = FALSE
          /\ fingers'[Engine].m_A = Eng.m_A
          /\ fingers'[Engine].m_controlCoeff = Eng.m_controlCoeff]_vars

\* C8: with motorJointsCoupled or doCalibration false a calibration operation
\* returns true, changes neither sample log, nor the stored motor command,
\* nor the integrator, and calls nothing on the actuator.
C8_CalibrationDisabledNoOp ==
    [][(/\ IsLogOp(lastOp')
        /\ (~Eng.m_motorJointsCoupled \/ ~Eng.m_doCalibration)) =>
          /\ ret' = TRUE
          /\ alive'
          /\ fingers'[Engine].m_motorsData = Eng.m_motorsData
          /\ fingers'[Engine].m_jointsData = Eng.m_jointsData
          /\ fingers'[Engine].m_desiredMotorValue = Eng.m_desiredMotorValue
          /\ fingers'[Engine].m_fingerIntegrator = Eng.m_fingerIntegrator
          /\ calls' = <<>>]_vars

\* a calibration operation returned from an engine that is coupled but not
\* calibrating and holds a stored command
C8_Witness ==
    /\ IsLogOp(lastOp) /\ ret
    /\ Eng.m_motorJointsCoupled /\ ~Eng.m_doCalibration
    /\ Eng.m_desiredMotorValue # Zeros(Eng.dofs)

\* C9: in calibration mode a calibration operation that returns true has
\* appended the measured axis vector to the motor log and the measured joint
\* vector to the joint log, one row each, before it set the next reference
\* and issued its one move; no step removes or rewrites a logged row, and the
\* two logs grow only together, by a calibration operation.
C9_OneSamplePerCall ==
    [][/\ (/\ IsLogOp(lastOp') /\ ret' /\ alive'
           /\ Eng.m_motorJointsCoupled /\ Eng.m_doCalibration) =>
              /\ fingers'[Engine].m_motorsData.v =
                     Append(Eng.m_motorsData.v, Eng.encoders)
              /\ fingers'[Engine].m_jointsData.v =
                     Append(Eng.m_jointsData.v, Eng.analog)
              /\ fingers'[Engine].m_motorsData.rows = Eng.m_motorsData.rows + 1
              /\ fingers'[Engine].m_jointsData.rows = Eng.m_jointsData.rows + 1
              /\ Len(calls') = 4
              /\ calls'[1].op = "push_back_row" /\ calls'[1].arg = Eng.encoders
              /\ calls'[2].op = "push_back_row" /\ calls'[2].arg = Eng.analog
              /\ calls'[3].op = "setFingersAxisReference"
              /\ calls'[4].op = "move"
              /\ calls'[4].arg = fingers'[Engine].m_desiredMotorValue
       /\ \/ /\ fingers'[Engine].m_motorsData.v = Eng.m_motorsData.v
             /\ fingers'[Engine].m_jointsData.v = Eng.m_jointsData.v
          \/ /\ IsLogOp(lastOp')
             /\ Len(fingers'[Engine].m_motorsData.v) = Len(Eng.m_motorsData.v) + 1
             /\ Len(fingers'[Engine].m_jointsData.v) = Len(Eng.m_jointsData.v) + 1
             /\ SubSeq(fingers'[Engine].m_motorsData.v, 1, Len(Eng.m_motorsData.v))
                    = Eng.m_motorsData.v
             /\ SubSeq(fingers'[Engine].m_jointsData.v, 1, Len(Eng.m_jointsData.v))
                    = Eng.m_jointsData.v]_vars

\* two calibration operations have succeeded: both logs hold two rows, the
\* first of them different from the second
C9_Witness ==
    /\ IsLogOp(lastOp) /\ ret /\ alive
    /\ Eng.m_motorsData.rows = 2 /\ Eng.m_jointsData.rows = 2
    /\ Eng.m_motorsData.v[1] # Eng.m_motorsData.v[2]

\* C12: whenever configure has returned true, its sensor read succeeded
\* before the integrator was made, the integrator exists, and the position
\* the integrator starts from is the axis vector of that read.
C12_IntegratorStartsAtMeasure ==
    (lastOp = "configure" /\ ret) =>
        /\ \E i \in 1..Len(calls) : calls[i].op = "getFeedback" /\ calls[i].ok
        /\ Eng.m_fingerIntegrator.set
        /\ Eng.m_fingerIntegrator.y = lastArg[1].reading.axis

\* v lies within the hand's position limits on every axis
WithinLimits(v, n) ==
    \A i \in 1..Len(v) :
        /\ ~RLess(v[i], getLimits(n)[i][1])
        /\ ~RLess(getLimits(n)[i][2], v[i])

\* C13: the position the integrator holds, which is what integrate returns,
\* lies within the hand's [min, max] limits on every axis after every
\* sequence of calls.
C13_IntegratorWithinLimits ==
    Eng.m_fingerIntegrator.set =>
        /\ Len(Eng.m_fingerIntegrator.y) = Eng.dofs
        /\ WithinLimits(Eng.m_fingerIntegrator.y, Eng.dofs)

\* the integrator has integrated the largest speed twice from a position one
\* step below the upper limit, and holds the upper limit
C13_Witness ==
    /\ lastOp = "LogRandom" /\ ret /\ alive
    /\ Eng.m_motorsData.rows = 2
    /\ Eng.m_fingerIntegrator.x_old[1] = R(VelocityLimit)
    /\ Eng.m_fingerIntegrator.y[1] = R(LimitMax)

\* C14: whenever the coupling matrix of a configured engine is set, it has
\* jointCount rows and axisCount columns.
C14_CouplingShape ==
    (Eng.ready /\ Eng.m_A.rows > 0) => ShapeIs(Eng.m_A, Eng.joints, Eng.dofs)

\* C15: a successful configure with motorsJointsCoupled false leaves A the
\* identity over the axes, whatever doCalibration is and whether or not a
\* CouplingMatrix is given; and in such an engine with a scaling of all ones
\* setFingersAxisReference(v) returns true and stores exactly v.
C15_UncoupledIdentity ==
    /\ (lastOp = "configure" /\ ret /\ ~Eng.m_motorJointsCoupled) =>
          /\ ShapeIs(Eng.m_A, Eng.dofs, Eng.dofs)
          /\ \A i, j \in 1..Eng.dofs :
                Eng.m_A.v[i][j] = IF i = j THEN R(1) ELSE R(0)
    /\ (/\ lastOp = "setFingersAxisReference" /\ Len(lastArg) = Eng.dofs
        /\ ~Eng.m_motorJointsCoupled
        /\ \A i \in 1..Eng.dofs : Eng.m_fingersScaling[i] = R(1)) =>
          ret /\ Eng.m_desiredMotorValue = lastArg

\* the reference (1, 2, ...) was stored unchanged by an uncoupled engine
\* with doCalibration set, whose A is the identity
C15_Witness ==
    /\ lastOp = "setFingersAxisReference" /\ ret
    /\ ~Eng.m_motorJointsCoupled /\ Eng.m_doCalibration
    /\ Eng.m_A.rows = Eng.dofs /\ Eng.m_A.v[1][1] = R(1)
    /\ Eng.m_desiredMotorValue = [i \in 1..Eng.dofs |-> R(i)]

\* the calls of operation op on hand h are at these positions of cs
CallsAt(cs, h, op) == {i \in 1..Len(cs) : cs[i].hand = h /\ cs[i].op = op}

\* C16: a cycle that starts in Running completes; afterwards every entry of
\* the left reference is the value computed in the cycle and every entry of
\* the right reference equals it, for all axes of the right hand; on each
\* hand setFingersAxisReference is called, with that hand's reference, before
\* move, and move is called exactly once.
C16_SharedReferenceBothHands ==
    [][(CycleStep /\ m_state = "Running") =>
          /\ alive' /\ ret'
          /\ \A i \in 1..Len(m_icubFingerAxisReference'["left"]) :
                m_icubFingerAxisReference'["left"][i] =
                    SinReference(clock - m_timeStarting)
          /\ \A i \in 1..Len(m_icubFingerAxisReference'["right"]) :
                m_icubFingerAxisReference'["right"][i] =
                    m_icubFingerAxisReference'["left"][1]
          /\ Len(m_icubFingerAxisReference'["right"]) = fingers'["right"].dofs
          /\ \A h \in Hands :
                /\ Cardinality(CallsAt(calls', h, "move")) = 1
                /\ Cardinality(CallsAt(calls', h, "setFingersAxisReference")) = 1
                /\ \A i \in CallsAt(calls', h, "setFingersAxisReference") :
                      /\ calls'[i].arg = m_icubFingerAxisReference'[h]
                      /\ \A j \in CallsAt(calls', h, "move") : i < j]_vars

\* C17: after setBuzzMotorsReference with a vector of m_buzzDof entries every
\* stored intensity, and every intensity sent to the glove, is an integer in
\* 0..100, and is 0 where the requested value is not positive; with a vector
\* of another length the call returns false, the stored intensities are
\* unchanged and nothing is sent.
C17_BuzzIntensityRange ==
    [][lastOp' = "setBuzzMotorsReference" =>
          IF Len(lastArg') = BuzzDof
          THEN /\ Len(glove'.m_desiredBuzzValues) = BuzzDof
               /\ \A i \in 1..BuzzDof :
                     /\ glove'.m_desiredBuzzValues[i] \in 0..100
                     /\ ~RLess(R(0), lastArg'[i]) => glove'.m_desiredBuzzValues[i] = 0
               /\ \A k \in 1..Len(calls') : \A i \in 1..Len(calls'[k].arg) :
                     calls'[k].arg[i] \in 0..100
          ELSE /\ ret' = FALSE
               /\ glove'.m_desiredBuzzValues = glove.m_desiredBuzzValues
               /\ calls' = <<>>]_vars

\* C18: in calibration mode every call of the random calibration operation
\* with generateRandomVelocity true completes, and the velocity vector it
\* hands to the integrator, which the integrator keeps as its last input,
\* has axisCount entries, as has the engine's velocity reference.
C18_VelocityVectorLength ==
    [][(/\ lastOp' = "LogRandom" /\ lastArg' = <<TRUE>>
        /\ Eng.m_motorJointsCoupled /\ Eng.m_doCalibration) =>
          /\ alive'
          /\ HasCall(calls', Engine, "move")
          /\ Len(fingers'[Engine].m_fingerIntegrator.x_old) = Eng.dofs
          /\ Len(fingers'[Engine].motorVelocityReference) = Eng.dofs]_vars

\* C19: a cycle that starts in Configured or InPreparation changes neither
\* hand's stored motor command nor the module's references and calls neither
\* setFingersAxisReference nor move; a cycle that does either started in
\* Running.
C19_NoActuationBeforeRunning ==
    [][CycleStep =>
          /\ m_state \in {"Configured", "InPreparation"} =>
                /\ \A h \in Hands :
                      /\ fingers'[h].m_desiredMotorValue = fingers[h].m_desiredMotorValue
                      /\ ~HasCall(calls', h, "move")
                      /\ ~HasCall(calls', h, "setFingersAxisReference")
                /\ m_icubFingerAxisReference' = m_icubFingerAxisReference
          /\ (\E h \in Hands : \/ HasCall(calls', h, "move")
                                \/ HasCall(calls', h, "setFingersAxisReference")
                                \/ fingers'[h].m_desiredMotorValue
                                       # fingers[h].m_desiredMotorValue) =>
                m_state = "Running"]_vars

\* the InPreparation cycle has just ended: feedback was read, the state is
\* Running, nothing was actuated
C19_Witness ==
    /\ lastOp = "updateModule" /\ ret
    /\ m_state = "Running" /\ m_timeStarting > 0 /\ m_timeNow = 0
    /\ HasCall(calls, "left", "updateFeedback")
    /\ \A h \in Hands : ~HasCall(calls, h, "move")
    /\ \A h \in Hands : fingers[h].m_desiredMotorValue = Zeros(fingers[h].dofs)

\* C20: when the random calibration operation has called move, the command
\* it stored and sent lies within the limits of every axis, whatever the
\* scaling vector.
C20_CalibrationCommandWithinLimits ==
    (/\ lastOp = "LogRandom" /\ alive
     /\ HasCall(calls, Engine, "move")) =>
        /\ WithinLimits(Eng.m_desiredMotorValue, Eng.dofs)
        /\ \A k \in 1..Len(calls) :
              (calls[k].hand = Engine /\ calls[k].op = "move") =>
                  WithinLimits(calls[k].arg, Eng.dofs)
====
